---- MODULE Spec2Model ----
(***************************************************************************)
(* Model of src/helper/polyline.ts: the Polyline codec (encode, decode,    *)
(* decodeLongLat, toGeoJSON) and the VietmapPolyline route utilities       *)
(* (nearestLatLngOnLine, splitRouteByLatLng).                              *)
(* Also of src/exception/error-handler.ts and the promise chain of the     *)
(* methods of VietmapApi in src/vietmap-api.ts.                            *)
(*                                                                         *)
(* Numbers.  A coordinate component is a fixed-point number: the integer   *)
(* X stands for the degree value X / 10^Resolution.  Arithmetic on these   *)
(* values is exact; the rounding error of IEEE doubles is not modelled.    *)
(* A string is a sequence of character codes.                              *)
(***************************************************************************)
EXTENDS Integers, Sequences, FiniteSets, TLC

VARIABLES
    precision,   \* the precision argument of the codec calls
    hist,        \* the codec calls made so far, each with its result
    line,        \* the path argument of the route utilities
    point,       \* the query point argument
    options,     \* the unit and snap arguments as the caller passes them
    unit,        \* the unit parameter of the call, after its default
    snapInputLatLngToResult,  \* the snap parameter of the call, after its default
    geoOp,       \* the route utility last called ("none" before any call)
    geoResult,   \* what that call returned or threw
    api,         \* the call of a VietmapApi method: its promise chain
    handlerCalls \* the calls of handleApiError: the error given, the outcome

vars == <<precision, hist, line, point, options, unit,
          snapInputLatLngToResult, geoOp, geoResult, api, handlerCalls>>

codecVars == <<precision, hist>>
geoVars == <<line, point, options, unit, snapInputLatLngToResult, geoOp,
            geoResult>>
apiVars == <<api, handlerCalls>>

----------------------------------------------------------------------------
(* Bounds of the model *)

MaxStrLen == 4          \* longest input string
MaxCoords == 2          \* longest input coordinate sequence
MaxOps == 4             \* codec calls chained on one input
MaxCoord == 165         \* largest input component, in 10^-Resolution degrees
GridMax == 2            \* route utilities: vertices on the grid 0..GridMax
MaxPathLen == 3         \* route utilities: longest generated path

----------------------------------------------------------------------------
(* Numbers *)

DefaultPrecision == 5

Resolution == DefaultPrecision

RECURSIVE Pow10(_)
Pow10(n) == IF n = 0 THEN 1 ELSE 10 * Pow10(n - 1)

UnitScale == Pow10(Resolution)

Abs(x) == IF x < 0 THEN -x ELSE x

\* a precision argument: an integer, or a number that is not an integer
IntPrecision(n) == [isInteger |-> TRUE, value |-> n]
NonIntegerPrecision == [isInteger |-> FALSE, value |-> 0]

FactorMutant(p) == Pow10(IF p.isInteger THEN p.value ELSE DefaultPrecision - 1)

\* Math.pow(10, Number.isInteger(precision) ? precision : 5)
Factor(p) == Pow10(IF p.isInteger THEN p.value ELSE DefaultPrecision)

\* Math.floor(Math.abs(value) + 0.5) * (value >= 0 ? 1 : -1) for the
\* rational value num / den
Py2RoundMutant(num, den) ==
    (Abs(num) \div den) * (IF num >= 0 THEN 1 ELSE -1)

py2_round(num, den) ==
    ((2 * Abs(num) + den) \div (2 * den)) * (IF num >= 0 THEN 1 ELSE -1)

\* current * factor for the fixed-point value x, as a fraction in lowest
\* power-of-ten terms: x * factor / 10^Resolution
TimesFactor(x, factor) ==
    IF factor >= UnitScale
    THEN [num |-> x * (factor \div UnitScale), den |-> 1]
    ELSE [num |-> x, den |-> UnitScale \div factor]

\* lat / factor as a fixed-point value: n * 10^Resolution / factor
DivFactor(n, factor) ==
    IF factor <= UnitScale
    THEN n * (UnitScale \div factor)
    ELSE n \div (factor \div UnitScale)

----------------------------------------------------------------------------
(* Polyline._encode *)

RECURSIVE EncodeChunksMutant(_)
EncodeChunksMutant(coordinate) ==
    IF coordinate >= 32
    THEN <<(coordinate % 32) + 63>> \o EncodeChunksMutant(coordinate \div 32)
    ELSE <<coordinate + 63>>

\* the while loop of lines 15-18 and the last chunk of line 19
RECURSIVE EncodeChunks(_)
EncodeChunks(coordinate) ==
    IF coordinate >= 32
    THEN <<(32 + (coordinate % 32)) + 63>> \o EncodeChunks(coordinate \div 32)
    ELSE <<coordinate + 63>>

ZigZagMutant(delta) == IF delta * 2 < 0 THEN -(delta * 2) ELSE delta * 2

ZigZag(delta) == IF delta * 2 < 0 THEN -(delta * 2) - 1 ELSE delta * 2

_encode(current, previous, factor) ==
    LET c == TimesFactor(current, factor)
        p == TimesFactor(previous, factor)
        cur == py2_round(c.num, c.den)
        prev == py2_round(p.num, p.den)
    IN  EncodeChunks(ZigZag(cur - prev))

(* Polyline.encode *)

RECURSIVE EncodeFromMutant(_, _, _)
EncodeFromMutant(coordinates, i, factor) ==
    IF i > Len(coordinates) THEN <<>>
    ELSE _encode(coordinates[i][1], 0, factor)
         \o _encode(coordinates[i][2], 0, factor)
         \o EncodeFromMutant(coordinates, i + 1, factor)

RECURSIVE EncodeFrom(_, _, _)
EncodeFrom(coordinates, i, factor) ==
    IF i > Len(coordinates) THEN <<>>
    ELSE _encode(coordinates[i][1], coordinates[i - 1][1], factor)
         \o _encode(coordinates[i][2], coordinates[i - 1][2], factor)
         \o EncodeFrom(coordinates, i + 1, factor)

encode(coordinates, p) ==
    IF Len(coordinates) = 0 THEN <<>>
    ELSE LET factor == Factor(p)
         IN  _encode(coordinates[1][1], 0, factor)
             \o _encode(coordinates[1][2], 0, factor)
             \o EncodeFrom(coordinates, 2, factor)

----------------------------------------------------------------------------
(* Polyline.decode and Polyline.decodeLongLat *)

RECURSIVE DecodeValueMutant(_, _, _, _)
DecodeValueMutant(str, index, shift, result) ==
    IF index >= Len(str)
    THEN [result |-> result, index |-> index + 1]
    ELSE LET byte == str[index + 1] - 63
             r == result + (byte % 64) * shift
         IN  IF byte >= 32
             THEN DecodeValueMutant(str, index + 1, shift * 32, r)
             ELSE [result |-> r, index |-> index + 1]

RECURSIVE DecodeValueNoAdvance(_, _, _, _)
DecodeValueNoAdvance(str, index, shift, result) ==
    IF index >= Len(str)
    THEN [result |-> result, index |-> index]
    ELSE LET byte == str[index + 1] - 63
             r == result + (byte % 32) * shift
         IN  IF byte >= 32
             THEN DecodeValueNoAdvance(str, index + 1, shift * 32, r)
             ELSE [result |-> r, index |-> index + 1]

\* the do ... while (byte >= 0x20) loop; index counts characters from 0.
\* Past the end of the string charCodeAt gives NaN: NaN & 0x1f is 0 and
\* NaN >= 0x20 is false, so the loop adds nothing and stops.
RECURSIVE DecodeValue(_, _, _, _)
DecodeValue(str, index, shift, result) ==
    IF index >= Len(str)
    THEN [result |-> result, index |-> index + 1]
    ELSE LET byte == str[index + 1] - 63
             r == result + (byte % 32) * shift
         IN  IF byte >= 32
             THEN DecodeValue(str, index + 1, shift * 32, r)
             ELSE [result |-> r, index |-> index + 1]

ChangeMutant(result) == result \div 2

\* result & 1 ? (-result - 1) / 2 : result / 2
Change(result) ==
    IF result % 2 = 1 THEN (-result - 1) \div 2 ELSE result \div 2

RECURSIVE DecodeLoopMutant(_, _, _, _, _, _)
DecodeLoopMutant(str, index, lat, lng, coordinates, factor) ==
    IF index < Len(str) - 1
    THEN LET a == DecodeValue(str, index, 1, 0)
             b == DecodeValue(str, a.index, 1, 0)
             lat2 == lat + Change(a.result)
             lng2 == lng + Change(b.result)
         IN  DecodeLoopMutant(str, b.index, lat2, lng2,
                 Append(coordinates,
                        <<DivFactor(lat2, factor), DivFactor(lng2, factor)>>),
                 factor)
    ELSE [coordinates |-> coordinates, index |-> index]

RECURSIVE DecodeLoop(_, _, _, _, _, _)
DecodeLoop(str, index, lat, lng, coordinates, factor) ==
    IF index < Len(str)
    THEN LET a == DecodeValue(str, index, 1, 0)
             b == DecodeValue(str, a.index, 1, 0)
             lat2 == lat + Change(a.result)
             lng2 == lng + Change(b.result)
         IN  DecodeLoop(str, b.index, lat2, lng2,
                 Append(coordinates,
                        <<DivFactor(lat2, factor), DivFactor(lng2, factor)>>),
                 factor)
    ELSE [coordinates |-> coordinates, index |-> index]

decode(str, p) == DecodeLoop(str, 0, 0, 0, <<>>, Factor(p))

RECURSIVE DecodeLongLatLoop(_, _, _, _, _, _)
DecodeLongLatLoop(str, index, lat, lng, coordinates, factor) ==
    IF index < Len(str)
    THEN LET a == DecodeValue(str, index, 1, 0)
             b == DecodeValue(str, a.index, 1, 0)
             lat2 == lat + Change(a.result)
             lng2 == lng + Change(b.result)
         IN  DecodeLongLatLoop(str, b.index, lat2, lng2,
                 Append(coordinates,
                        <<DivFactor(lng2, factor), DivFactor(lat2, factor)>>),
                 factor)
    ELSE [coordinates |-> coordinates, index |-> index]

DecodeLongLatMutant(str, p) == DecodeLoop(str, 0, 0, 0, <<>>, Factor(p))

decodeLongLat(str, p) == DecodeLongLatLoop(str, 0, 0, 0, <<>>, Factor(p))

(* Polyline.flipped and Polyline.toGeoJSON *)

flipped(coords) == [k \in 1..Len(coords) |-> <<coords[k][2], coords[k][1]>>]

toGeoJSON(str, p) ==
    LET d == decode(str, p)
    IN  [type |-> "LineString", coordinates |-> flipped(d.coordinates),
         index |-> d.index]

----------------------------------------------------------------------------
(* VietmapPolyline.  A LatLng is a pair <<lat, lng>> of integers.  The     *)
(* route utilities only compare distances, so a distance is modelled by    *)
(* its square in the plane, an exact fraction [num, den]; the unit factor  *)
(* scales every distance alike and is kept only for the unit lookup.       *)

\* the keys of the factors table
Units == {"centimeters", "degrees", "feet", "inches", "kilometers", "meters",
          "miles", "millimeters", "nauticalmiles", "radians", "yards", "acres"}

RECURSIVE GCD(_, _)
GCD(a, b) == IF b = 0 THEN a ELSE GCD(b, a % b)

Frac(n, d) == [num |-> n, den |-> d]

\* a < b on fractions with positive denominators, comparing the integer
\* parts first and then the remainders
Less(a, b) ==
    LET qa == a.num \div a.den
        qb == b.num \div b.den
    IN  \/ qa < qb
        \/ /\ qa = qb
           /\ (a.num % a.den) * b.den < (b.num % b.den) * a.den

\* _distance(from, to, unit)
_distance(from, to) ==
    Frac((to[1] - from[1]) * (to[1] - from[1])
         + (to[2] - from[2]) * (to[2] - from[2]), 1)

\* _radiansToLength and _lengthToRadians throw on a unit without a factor
UnitThrows(u) == u \notin Units

NearestLatLngResult(pt, distance, index, location) ==
    [isNull |-> FALSE, point |-> pt, distance |-> distance, index |-> index,
     location |-> location]

Null == [isNull |-> TRUE]

\* a point of the path, or the point at fraction num/den of a segment
Vertex(v) == [on |-> "vertex", latLng |-> v]
OnSegment(start, stop, t) ==
    [on |-> "segment", start |-> start, stop |-> stop, t |-> t]

\* length: the sum of the section lengths added so far.  A length is the
\* square root of a fraction, so the sum is kept term by term, as the
\* sequence of the squares of its terms.
\* A location is length + piece, piece the square of the last term.
Location(length, piece) == [length |-> length, piece |-> piece]

\* The probe of lines 302-322: the line through point perpendicular to the
\* segment, reaching max(start.distance, stop.distance) to either side,
\* intersected with the segment by _intersects.  The intersection exists
\* when the probe and the segment are not degenerate (denom # 0) and the
\* foot of the perpendicular lies within the segment (uA, uB in [0, 1]).
\* Returns Null or the foot with its squared distance from point.
Intersection(pt, start, stop) ==
    LET d1 == stop[1] - start[1]
        d2 == stop[2] - start[2]
        w1 == pt[1] - start[1]
        w2 == pt[2] - start[2]
        g == GCD(Abs(d1), Abs(d2))
        lensq == d1 * d1 + d2 * d2
        dot == w1 * d1 + w2 * d2
        heightDistance ==
            IF Less(_distance(pt, start), _distance(pt, stop))
            THEN _distance(pt, stop) ELSE _distance(pt, start)
    IN  IF lensq = 0 \/ heightDistance.num = 0 THEN Null
        ELSE IF dot >= 0 /\ dot <= lensq
        THEN LET e1 == d1 \div g
                 e2 == d2 \div g
                 cross == e1 * w2 - e2 * w1
             IN  [isNull |-> FALSE,
                  latLng |-> OnSegment(start, stop, Frac(dot, lensq)),
                  distance |-> Frac(cross * cross, e1 * e1 + e2 * e2),
                  fromStart |-> Frac((dot \div g) * (dot \div g),
                                    e1 * e1 + e2 * e2)]
        ELSE Null

NearestStepNoIntersection(ln, pt, i, nearest, stopP, length) ==
    LET startLatLng == ln[i + 1]
        stopLatLng == ln[i + 2]
        sectionLength == _distance(startLatLng, stopLatLng)
        start == NearestLatLngResult(Vertex(startLatLng),
                     _distance(pt, startLatLng), i,
                     Location(length, Frac(0, 1)))
        stop == NearestLatLngResult(Vertex(stopLatLng),
                     _distance(pt, stopLatLng), i + 1,
                     Location(Append(length, sectionLength), Frac(0, 1)))
        n1 == IF nearest.isNull \/ Less(start.distance, nearest.distance)
              THEN start ELSE nearest
        takeStop == Less(stop.distance, n1.distance)
        n2 == IF takeStop THEN stop ELSE n1
        s2 == IF takeStop THEN stop ELSE stopP
    IN  [nearest |-> n2, stopP |-> s2,
         length |-> Append(length, sectionLength)]

NearestStepMutant(ln, pt, i, nearest, stopP, length) ==
    LET startLatLng == ln[i + 1]
        stopLatLng == ln[i + 2]
        sectionLength == _distance(startLatLng, stopLatLng)
        start == NearestLatLngResult(Vertex(startLatLng),
                     _distance(pt, startLatLng), i,
                     Location(length, Frac(0, 1)))
        stop == NearestLatLngResult(Vertex(stopLatLng),
                     _distance(pt, stopLatLng), i,
                     Location(Append(length, sectionLength), Frac(0, 1)))
        x == Intersection(pt, startLatLng, stopLatLng)
        intersection ==
            IF x.isNull THEN Null
            ELSE NearestLatLngResult(x.latLng, x.distance, i,
                                     Location(length, x.fromStart))
        n1 == IF nearest.isNull \/ Less(start.distance, nearest.distance)
              THEN start ELSE nearest
        takeStop == Less(stop.distance, n1.distance)
        n2 == IF takeStop THEN stop ELSE n1
        s2 == IF takeStop THEN stop ELSE stopP
        n3 == IF ~intersection.isNull
                 /\ Less(intersection.distance, n2.distance)
              THEN intersection ELSE n2
    IN  [nearest |-> n3, stopP |-> s2,
         length |-> Append(length, sectionLength)]

AtMost(a, b) == ~Less(b, a)

NearestStepLastWins(ln, pt, i, nearest, stopP, length) ==
    LET startLatLng == ln[i + 1]
        stopLatLng == ln[i + 2]
        sectionLength == _distance(startLatLng, stopLatLng)
        start == NearestLatLngResult(Vertex(startLatLng),
                     _distance(pt, startLatLng), i,
                     Location(length, Frac(0, 1)))
        stop == NearestLatLngResult(Vertex(stopLatLng),
                     _distance(pt, stopLatLng), i + 1,
                     Location(Append(length, sectionLength), Frac(0, 1)))
        x == Intersection(pt, startLatLng, stopLatLng)
        intersection ==
            IF x.isNull THEN Null
            ELSE NearestLatLngResult(x.latLng, x.distance, i,
                                     Location(length, x.fromStart))
        n1 == IF nearest.isNull \/ AtMost(start.distance, nearest.distance)
              THEN start ELSE nearest
        takeStop == AtMost(stop.distance, n1.distance)
        n2 == IF takeStop THEN stop ELSE n1
        s2 == IF takeStop THEN stop ELSE stopP
        n3 == IF ~intersection.isNull
                 /\ AtMost(intersection.distance, n2.distance)
              THEN intersection ELSE n2
    IN  [nearest |-> n3, stopP |-> s2,
         length |-> Append(length, sectionLength)]

NearestStepStaleLength(ln, pt, i, nearest, stopP, length) ==
    LET startLatLng == ln[i + 1]
        stopLatLng == ln[i + 2]
        sectionLength == _distance(startLatLng, stopLatLng)
        start == NearestLatLngResult(Vertex(startLatLng),
                     _distance(pt, startLatLng), i,
                     Location(length, Frac(0, 1)))
        stop == NearestLatLngResult(Vertex(stopLatLng),
                     _distance(pt, stopLatLng), i + 1,
                     Location(length, Frac(0, 1)))
        x == Intersection(pt, startLatLng, stopLatLng)
        intersection ==
            IF x.isNull THEN Null
            ELSE NearestLatLngResult(x.latLng, x.distance, i,
                                     Location(length, x.fromStart))
        n1 == IF nearest.isNull \/ Less(start.distance, nearest.distance)
              THEN start ELSE nearest
        takeStop == Less(stop.distance, n1.distance)
        n2 == IF takeStop THEN stop ELSE n1
        s2 == IF takeStop THEN stop ELSE stopP
        n3 == IF ~intersection.isNull
                 /\ Less(intersection.distance, n2.distance)
              THEN intersection ELSE n2
    IN  [nearest |-> n3, stopP |-> s2,
         length |-> length]

\* one iteration of the for loop of _nearestLatLngOnLine; i counts from 0
NearestStep(ln, pt, i, nearest, stopP, length) ==
    LET startLatLng == ln[i + 1]
        stopLatLng == ln[i + 2]
        sectionLength == _distance(startLatLng, stopLatLng)
        start == NearestLatLngResult(Vertex(startLatLng),
                     _distance(pt, startLatLng), i,
                     Location(length, Frac(0, 1)))
        stop == NearestLatLngResult(Vertex(stopLatLng),
                     _distance(pt, stopLatLng), i + 1,
                     Location(Append(length, sectionLength), Frac(0, 1)))
        x == Intersection(pt, startLatLng, stopLatLng)
        intersection ==
            IF x.isNull THEN Null
            ELSE NearestLatLngResult(x.latLng, x.distance, i,
                                     Location(length, x.fromStart))
        n1 == IF nearest.isNull \/ Less(start.distance, nearest.distance)
              THEN start ELSE nearest
        takeStop == Less(stop.distance, n1.distance)
        n2 == IF takeStop THEN stop ELSE n1
        s2 == IF takeStop THEN stop ELSE stopP
        n3 == IF ~intersection.isNull
                 /\ Less(intersection.distance, n2.distance)
              THEN intersection ELSE n2
    IN  [nearest |-> n3, stopP |-> s2,
         length |-> Append(length, sectionLength)]

RECURSIVE NearestLoopMutant(_, _, _, _)
NearestLoopMutant(ln, pt, i, s) ==
    IF i < Len(ln) - 2
    THEN NearestLoopMutant(ln, pt, i + 1,
             NearestStep(ln, pt, i, s.nearest, s.stopP, s.length))
    ELSE s

\* the for loop from iteration i on; s holds nearest, stopP and length
RECURSIVE NearestLoop(_, _, _, _)
NearestLoop(ln, pt, i, s) ==
    IF i < Len(ln) - 1
    THEN NearestLoop(ln, pt, i + 1,
             NearestStep(ln, pt, i, s.nearest, s.stopP, s.length))
    ELSE s

\* _nearestLatLngOnLine(line, point, unit, isGetStop): the value returned,
\* or the error thrown by the first distance computed with a bad unit
_nearestLatLngOnLine(ln, pt, u, isGetStop) ==
    IF Len(ln) - 1 > 0 /\ UnitThrows(u)
    THEN [error |-> "units is invalid", res |-> Null]
    ELSE LET r == NearestLoop(ln, pt, 0, [nearest |-> Null, stopP |-> Null,
                                         length |-> <<>>])
         IN  [error |-> "none",
              res |-> IF isGetStop THEN r.stopP ELSE r.nearest]

nearestLatLngOnLine(ln, pt, u) == _nearestLatLngOnLine(ln, pt, u, FALSE)

\* line.slice(from, to) with 0-based bounds, to exclusive; bounds past the
\* end of the array are taken as its length
Slice(ln, from, to) ==
    LET f == IF from > Len(ln) THEN Len(ln) ELSE from
        t == IF to > Len(ln) THEN Len(ln) ELSE to
    IN  [k \in 1..(t - f) |-> ln[f + k]]

SplitIndexNullOne(res) == IF res.isNull THEN 1 ELSE res.index

SplitIndexMutant(res) == (IF res.isNull THEN -1 ELSE res.index) + 1

\* res?.index ?? -1 + 1, which parses as res?.index ?? (-1 + 1)
SplitIndex(res) == IF res.isNull THEN -1 + 1 ELSE res.index

SplitLine1Mutant(ln, pt, res, snap) ==
    LET to == IF SplitIndex(res) + 1 > Len(ln) THEN Len(ln)
              ELSE SplitIndex(res) + 1
        line1 == Slice(ln, 0, to)
    IN  IF snap THEN Append(line1, pt) ELSE line1

SplitLine1(ln, pt, res, snap) ==
    LET line1 == Slice(ln, 0, SplitIndex(res))
    IN  IF snap THEN Append(line1, pt) ELSE line1

SplitLine2Mutant(ln, pt, res, snap) ==
    LET line2 == [k \in 1..(Len(ln) - SplitIndex(res) - 1)
                      |-> ln[SplitIndex(res) + 1 + k]]
    IN  IF snap THEN <<pt>> \o line2 ELSE line2

SplitLine2(ln, pt, res, snap) ==
    LET line2 == Slice(ln, SplitIndex(res), Len(ln))
    IN  IF snap THEN <<pt>> \o line2 ELSE line2

\* unit = Unit.kilometers: the default of an omitted unit argument
UnitParam(u) == IF u = "undefined" THEN "kilometers" ELSE u

SnapParamMutant(o) == IF o = "undefined" THEN FALSE ELSE o = "true"

\* snapInputLatLngToResult = true: the default of an omitted option
SnapParam(o) == IF o = "undefined" THEN TRUE ELSE o = "true"

splitRouteByLatLng(ln, pt, u, snap) ==
    LET r == _nearestLatLngOnLine(ln, pt, u, TRUE)
    IN  IF r.error # "none"
        THEN [error |-> r.error, line1 |-> <<>>, line2 |-> <<>>, res |-> Null]
        ELSE [error |-> "none",
              line1 |-> SplitLine1(ln, pt, r.res, snap),
              line2 |-> SplitLine2(ln, pt, r.res, snap),
              res |-> r.res]

\* The arrays of a call of splitRouteByLatLng, by the name that refers to
\* each: the caller's path and the two arrays that slice creates.
Arrays(ln) ==
    [a \in {"line", "line1", "line2"} |-> IF a = "line" THEN ln ELSE <<>>]

SpliceInto(arrays, from, to, new) ==
    LET path == arrays["line"]
    IN  [arrays EXCEPT ![new] = Slice(path, from, to),
                       !["line"] = Slice(path, 0, from)
                                   \o Slice(path, to, Len(path))]

\* const new = line.slice(from, to): the elements are copied into a new
\* array and line is only read
SliceInto(arrays, from, to, new) ==
    [arrays EXCEPT ![new] = Slice(arrays["line"], from, to)]

\* push and unshift change the array they are called on
Push(arrays, a, pt) == [arrays EXCEPT ![a] = Append(@, pt)]
Unshift(arrays, a, pt) == [arrays EXCEPT ![a] = <<pt>> \o @]

\* lines 372-379 of splitRouteByLatLng, as the arrays they leave
SplitArrays(ln, pt, res, snap) ==
    LET a1 == SliceInto(Arrays(ln), 0, SplitIndex(res), "line1")
        a2 == IF snap THEN Push(a1, "line1", pt) ELSE a1
        a3 == SliceInto(a2, SplitIndex(res), Len(a2["line"]), "line2")
    IN  IF snap THEN Unshift(a3, "line2", pt) ELSE a3

\* the caller's path when splitRouteByLatLng has returned or thrown
PathAfterSplit(ln, pt, u, snap) ==
    LET r == _nearestLatLngOnLine(ln, pt, u, TRUE)
    IN  IF r.error # "none" THEN ln
        ELSE SplitArrays(ln, pt, r.res, snap)["line"]

----------------------------------------------------------------------------
(* The exception classes and handleApiError.  An error is a record with    *)
(* its name; an error of the plugin also has the code, statusCode and      *)
(* originalError that the constructor of VietmapApiError sets.  The        *)
(* messages and the fields retryAfter, field, value and responseData are   *)
(* not modelled.                                                           *)

\* statusCode undefined, and a response that is undefined
NoStatus == 0
NoResponse == [status |-> NoStatus, data |-> "undefined"]

\* no error: undefined
NoError == [name |-> "undefined"]

Response(status, data) == [status |-> status, data |-> data]

\* the errors of the libraries, an Error of JavaScript, a value that is no
\* Error
AxiosError(response) == [name |-> "AxiosError", response |-> response]
ZodError == [name |-> "ZodError"]
TypeError == [name |-> "TypeError"]
ThrownString == [name |-> "string"]

\* error instanceof Error
IsError(error) == error.name \notin {"string", "undefined"}

VietmapApiError(code, statusCode, originalError) ==
    [name |-> "VietmapApiError", code |-> code, statusCode |-> statusCode,
     originalError |-> originalError]

NetworkError(statusCode, originalError) ==
    [VietmapApiError("NETWORK_ERROR", statusCode, originalError)
        EXCEPT !.name = "NetworkError"]

ParseError(originalError) ==
    [VietmapApiError("PARSE_ERROR", NoStatus, originalError)
        EXCEPT !.name = "ParseError"]

AuthenticationError(originalError) ==
    [VietmapApiError("AUTHENTICATION_ERROR", 401, originalError)
        EXCEPT !.name = "AuthenticationError"]

RateLimitError(originalError) ==
    [VietmapApiError("RATE_LIMIT_ERROR", 429, originalError)
        EXCEPT !.name = "RateLimitError"]

\* statusCode || 500
ServerError(statusCode, originalError) ==
    [VietmapApiError("SERVER_ERROR",
                     IF statusCode = NoStatus THEN 500 ELSE statusCode,
                     originalError)
        EXCEPT !.name = "ServerError"]

ValidationError(originalError) ==
    [VietmapApiError("VALIDATION_ERROR", 400, originalError)
        EXCEPT !.name = "ValidationError"]

\* the outcome of a call: it threw error, or it returned
Throw(error) == [threw |-> TRUE, error |-> error]
Return == [threw |-> FALSE, error |-> NoError]

HandleApiErrorMutant(error) ==
    IF error.name = "AxiosError"
    THEN IF error.response = NoResponse
         THEN Throw(NetworkError(NoStatus, error))
         ELSE LET status == error.response.status
              IN  CASE status = 400 -> Throw(ValidationError(error))
                    [] status \in {401, 403} ->
                           Throw(AuthenticationError(error))
                    [] status = 429 -> Throw(RateLimitError(error))
                    [] status \in {500, 503, 504} ->
                           Throw(ServerError(status, error))
                    [] OTHER ->
                           Throw(VietmapApiError("HTTP_ERROR", status, error))
    ELSE IF error.name = "ZodError" THEN Throw(ParseError(error))
    ELSE IF IsError(error)
    THEN Throw(VietmapApiError("UNKNOWN_ERROR", NoStatus, error))
    ELSE Throw(VietmapApiError("UNKNOWN_ERROR", NoStatus, NoError))

handleApiError(error) ==
    IF error.name = "AxiosError"
    THEN IF error.response = NoResponse
         THEN Throw(NetworkError(NoStatus, error))
         ELSE LET status == error.response.status
              IN  CASE status = 400 -> Throw(ValidationError(error))
                    [] status \in {401, 403} ->
                           Throw(AuthenticationError(error))
                    [] status = 429 -> Throw(RateLimitError(error))
                    [] status \in {500, 502, 503, 504} ->
                           Throw(ServerError(status, error))
                    [] OTHER ->
                           Throw(VietmapApiError("HTTP_ERROR", status, error))
    ELSE IF error.name = "ZodError" THEN Throw(ParseError(error))
    ELSE IF IsError(error)
    THEN Throw(VietmapApiError("UNKNOWN_ERROR", NoStatus, error))
    ELSE Throw(VietmapApiError("UNKNOWN_ERROR", NoStatus, NoError))

(* VietmapApi: the methods that build a model object from the response *)

ListMethods == {"search", "searchV4", "autoCompleteSearch",
                "autoCompleteSearchV4"}
FirstItemMethods == {"reverse", "reverseV4"}
ObjectMethods == {"place", "placeV4", "route", "tsp", "migrateAddress"}
Methods == ListMethods \cup FirstItemMethods \cup ObjectMethods

\* the body of a response with status 2xx: one that passes the schema of
\* the method, one that fails it, and null
Bodies == {"valid", "invalid", "null"}

\* the try block of the then callback: response.data.map(fromJSON),
\* fromJSON(response.data[0]) or fromJSON(response.data).  The schema
\* parse of fromJSON throws a ZodError; map and [0] of null throw a
\* TypeError.
FromJSON(method, data) ==
    CASE data = "valid" -> Return
      [] data = "invalid" -> Throw(ZodError)
      [] OTHER -> IF method \in ObjectMethods THEN Throw(ZodError)
                  ELSE Throw(TypeError)

\* a promise: pending, fulfilled, or rejected with an error
Settled(state, error) == [state |-> state, error |-> error]

\* .then((response) => { try { return fromJSON(...) }
\*                       catch (error) { handleApiError(error) } })
\* on the promise of axios.get: a rejection passes through; the callback
\* fulfils the new promise when it returns and rejects it when it throws
ThenCallback(method, state, response, error) ==
    IF state = "rejected" THEN Settled("rejected", error)
    ELSE LET r == FromJSON(method, response.data)
         IN  IF ~r.threw THEN Settled("fulfilled", NoError)
             ELSE LET h == handleApiError(r.error)
                  IN  IF h.threw THEN Settled("rejected", h.error)
                      ELSE Settled("fulfilled", NoError)

\* .catch((error) => { handleApiError(error) }): a fulfilment passes
\* through; a rejection runs the callback
CatchCallback(state, error) ==
    IF state = "fulfilled" THEN Settled("fulfilled", NoError)
    ELSE LET h == handleApiError(error)
         IN  IF h.threw THEN Settled("rejected", h.error)
             ELSE Settled("fulfilled", NoError)

\* a call of handleApiError, as handlerCalls records it
HandlerCall(error) ==
    LET h == handleApiError(error)
    IN  [error |-> error, threw |-> h.threw, thrown |-> h.error]

----------------------------------------------------------------------------
(* The codec as a state machine: an input is drawn, then the public        *)
(* methods are called on the latest string or coordinate sequence.  Each   *)
(* entry of hist records one call: its string, its coordinate sequence,    *)
(* the read position the decoder stopped at, and the error it threw.       *)

\* the string of the README's decode example, c_hjS}s{`A{C}`@
KnownVector == <<99, 95, 104, 106, 83, 125, 115, 123, 96, 65, 123, 67, 125, 96, 64>>

\* '>' (below the alphabet), '?', '@', '^' (final chunks 0, 1, 31),
\* '_', '`' (continuation chunks 0, 1)
Alphabet == {62, 63, 64, 94, 95, 96}

CoordValues == {-160, -5, 0, 10, MaxCoord}

PrecisionInputs == {IntPrecision(Resolution - 1), IntPrecision(Resolution),
                    NonIntegerPrecision}

SeqsUpTo(S, n) == UNION {[1..k -> S] : k \in 0..n}

StringInputs == SeqsUpTo(Alphabet, MaxStrLen) \cup {KnownVector}

CoordinateInputs == SeqsUpTo(CoordValues \X CoordValues, MaxCoords)

Call(op, str, coordinates, index, type) ==
    [op |-> op, str |-> str, coordinates |-> coordinates, index |-> index,
     type |-> type, error |-> "none"]

cur == hist[Len(hist)]

HasString == cur.op \in {"inputString", "encode"}
HasCoordinates == ~HasString

GeoIdle ==
    /\ line = <<>>
    /\ point = <<0, 0>>
    /\ options = [unit |-> "undefined", snap |-> "undefined"]
    /\ unit = "undefined"
    /\ snapInputLatLngToResult = FALSE
    /\ geoOp = "none"
    /\ geoResult = [line1 |-> <<>>, line2 |-> <<>>, res |-> [isNull |-> TRUE],
                    error |-> "none"]

\* no VietmapApi method has been called
ApiIdle ==
    /\ api = [method |-> "none", stage |-> "none", state |-> "none",
              response |-> NoResponse, value |-> NoError]
    /\ handlerCalls = <<>>

CodecInit ==
    /\ precision \in PrecisionInputs
    /\ \/ \E s \in StringInputs :
              hist = <<Call("inputString", s, <<>>, 0, "")>>
       \/ \E c \in CoordinateInputs :
              hist = <<Call("inputCoordinates", <<>>, c, 0, "")>>
    /\ GeoIdle
    /\ ApiIdle

Encode ==
    /\ Len(hist) <= MaxOps
    /\ HasCoordinates
    /\ hist' = Append(hist, Call("encode", encode(cur.coordinates, precision),
                                 cur.coordinates, 0, ""))
    /\ UNCHANGED <<precision, geoVars, apiVars>>

Decode ==
    /\ Len(hist) <= MaxOps
    /\ HasString
    /\ LET d == decode(cur.str, precision)
       IN  hist' = Append(hist, Call("decode", cur.str, d.coordinates,
                                     d.index, ""))
    /\ UNCHANGED <<precision, geoVars, apiVars>>

DecodeLongLat ==
    /\ Len(hist) <= MaxOps
    /\ HasString
    /\ LET d == decodeLongLat(cur.str, precision)
       IN  hist' = Append(hist, Call("decodeLongLat", cur.str, d.coordinates,
                                     d.index, ""))
    /\ UNCHANGED <<precision, geoVars, apiVars>>

ToGeoJSON ==
    /\ Len(hist) <= MaxOps
    /\ HasString
    /\ LET g == toGeoJSON(cur.str, precision)
       IN  hist' = Append(hist, Call("toGeoJSON", cur.str, g.coordinates,
                                     g.index, g.type))
    /\ UNCHANGED <<precision, geoVars, apiVars>>

CodecNext == Encode \/ Decode \/ DecodeLongLat \/ ToGeoJSON

CodecSpec == CodecInit /\ [][CodecNext]_vars

----------------------------------------------------------------------------
(* The route utilities as a state machine: a path, a query point, a unit   *)
(* and the snap option are drawn, then one of the two public functions is  *)
(* called and its result recorded.                                         *)

\* the path and the point of the README's split example, in 1e-5 degrees
ReadmeLine ==
    <<<<10670594, 1079631>>, <<10670664, 1079593>>, <<10670673, 1079589>>,
      <<10670700, 1079579>>, <<10670727, 1079572>>, <<10670743, 1079568>>,
      <<10670758, 1079565>>, <<10670778, 1079557>>, <<10670811, 1079543>>,
      <<10670828, 1079536>>, <<10670841, 1079530>>, <<10670929, 1079482>>,
      <<10670932, 1079479>>, <<10670985, 1079534>>, <<10670999, 1079553>>,
      <<10671006, 1079565>>, <<10671013, 1079585>>, <<10671019, 1079601>>,
      <<10671034, 1079640>>, <<10671050, 1079683>>, <<10671056, 1079700>>,
      <<10671071, 1079738>>>>

ReadmePoint == <<10670929, 1079482>>

\* a query point beside the middle of a long first segment, with the
\* last vertex nearer to it than the ends of that segment
LongSegmentLine == <<<<0, 0>>, <<0, 10>>, <<3, 5>>>>

LongSegmentPoint == <<1, 4>>

Grid == (0..GridMax) \X (0..GridMax)

UnitInputs == {"kilometers", "miles", "furlongs"}

GeoInit ==
    /\ \/ /\ line \in SeqsUpTo(Grid, MaxPathLen)
          /\ point \in Grid
       \/ /\ line = ReadmeLine
          /\ point = ReadmePoint
       \/ /\ line = LongSegmentLine
          /\ point = LongSegmentPoint
    /\ options \in [unit : UnitInputs \cup {"undefined"},
                    snap : {"true", "false", "undefined"}]
    /\ unit = "undefined"
    /\ snapInputLatLngToResult = FALSE
    /\ geoOp = "none"
    /\ geoResult = [line1 |-> <<>>, line2 |-> <<>>, res |-> Null,
                    error |-> "none"]
    /\ precision = IntPrecision(DefaultPrecision)
    /\ hist = <<Call("inputString", <<>>, <<>>, 0, "")>>
    /\ ApiIdle

NearestLatLngOnLine ==
    /\ geoOp = "none"
    /\ geoOp' = "nearestLatLngOnLine"
    /\ unit' = UnitParam(options.unit)
    /\ LET r == nearestLatLngOnLine(line, point, unit')
       IN  geoResult' = [line1 |-> <<>>, line2 |-> <<>>, res |-> r.res,
                         error |-> r.error]
    /\ UNCHANGED <<line, point, options, snapInputLatLngToResult, codecVars,
                   apiVars>>

SplitRouteByLatLng ==
    /\ geoOp = "none"
    /\ geoOp' = "splitRouteByLatLng"
    /\ unit' = UnitParam(options.unit)
    /\ snapInputLatLngToResult' = SnapParam(options.snap)
    /\ geoResult' = splitRouteByLatLng(line, point, unit',
                                       snapInputLatLngToResult')
    /\ line' = PathAfterSplit(line, point, unit', snapInputLatLngToResult')
    /\ UNCHANGED <<point, options, codecVars, apiVars>>

GeoNext == NearestLatLngOnLine \/ SplitRouteByLatLng

GeoSpec == GeoInit /\ [][GeoNext]_vars

----------------------------------------------------------------------------
(* A call of a VietmapApi method as a state machine: the method is called  *)
(* and axios.get gives a pending promise; the server or the network        *)
(* settles it; the then callback and the catch callback run in turn, and   *)
(* the promise after the catch callback is the one the caller holds.       *)
(* handleApiError is exported, so it is also called on its own.            *)

\* the statuses of the responses that reject the promise of axios.get
ErrorStatuses == {400, 401, 403, 404, 429, 500, 501, 502, 503, 504}

\* what settles the promise of axios.get: a response with status 2xx
\* fulfils it, any other response and no response at all reject it
GetOutcomes ==
    {[state |-> "fulfilled", response |-> Response(200, b), error |-> NoError]
        : b \in Bodies}
    \cup {[state |-> "rejected", response |-> Response(st, "error"),
           error |-> AxiosError(Response(st, "error"))] : st \in ErrorStatuses}
    \cup {[state |-> "rejected", response |-> NoResponse,
           error |-> AxiosError(NoResponse)]}

\* the values handleApiError is called with
ErrorInputs ==
    {AxiosError(NoResponse), ZodError, TypeError, ThrownString, NoError,
     ParseError(ZodError), NetworkError(NoStatus, AxiosError(NoResponse))}
    \cup {AxiosError(Response(st, "error")) : st \in ErrorStatuses}

ApiInit ==
    /\ ApiIdle
    /\ GeoIdle
    /\ precision = IntPrecision(DefaultPrecision)
    /\ hist = <<Call("inputString", <<>>, <<>>, 0, "")>>

CallMethod ==
    /\ api.stage = "none"
    /\ \E m \in Methods :
          api' = [method |-> m, stage |-> "get", state |-> "pending",
                  response |-> NoResponse, value |-> NoError]
    /\ UNCHANGED <<handlerCalls, codecVars, geoVars>>

GetSettles ==
    /\ api.stage = "get"
    /\ api.state = "pending"
    /\ \E o \in GetOutcomes :
          api' = [api EXCEPT !.state = o.state, !.response = o.response,
                             !.value = o.error]
    /\ UNCHANGED <<handlerCalls, codecVars, geoVars>>

RunThen ==
    /\ api.stage = "get"
    /\ api.state # "pending"
    /\ LET p == ThenCallback(api.method, api.state, api.response, api.value)
           r == FromJSON(api.method, api.response.data)
       IN  /\ api' = [api EXCEPT !.stage = "then", !.state = p.state,
                                 !.value = p.error]
           /\ handlerCalls' =
                 IF api.state = "fulfilled" /\ r.threw
                 THEN Append(handlerCalls, HandlerCall(r.error))
                 ELSE handlerCalls
    /\ UNCHANGED <<codecVars, geoVars>>

RunCatch ==
    /\ api.stage = "then"
    /\ LET p == CatchCallback(api.state, api.value)
       IN  /\ api' = [api EXCEPT !.stage = "catch", !.state = p.state,
                                 !.value = p.error]
           /\ handlerCalls' =
                 IF api.state = "rejected"
                 THEN Append(handlerCalls, HandlerCall(api.value))
                 ELSE handlerCalls
    /\ UNCHANGED <<codecVars, geoVars>>

HandleApiError ==
    /\ api.stage = "none"
    /\ handlerCalls = <<>>
    /\ \E e \in ErrorInputs : handlerCalls' = <<HandlerCall(e)>>
    /\ UNCHANGED <<api, codecVars, geoVars>>

ApiNext == CallMethod \/ GetSettles \/ RunThen \/ RunCatch \/ HandleApiError

ApiSpec == ApiInit /\ [][ApiNext]_vars

----------------------------------------------------------------------------
(* Properties of the codec *)

\* 10^-N in fixed-point units, for the precisions the model draws
Step(p) == UnitScale \div Factor(p)

IsMultiple(coordinates, p) ==
    \A k \in 1..Len(coordinates) :
        /\ coordinates[k][1] % Step(p) = 0
        /\ coordinates[k][2] % Step(p) = 0

\* the call at position j is op and the next call is op2
Then(j, op, op2) ==
    /\ j + 1 <= Len(hist)
    /\ hist[j].op = op
    /\ hist[j + 1].op = op2

\* C1: decoding the encoding of a sequence whose components are multiples
\* of 10^-N gives a sequence of the same length whose k-th pair is the
\* k-th input pair (so every component differs by less than 10^-N).
C1_RoundTrip ==
    \A j \in 1..Len(hist) :
        (Then(j, "encode", "decode") /\ precision.isInteger
            /\ IsMultiple(hist[j].coordinates, precision))
        => /\ Len(hist[j + 1].coordinates) = Len(hist[j].coordinates)
           /\ \A k \in 1..Len(hist[j].coordinates) :
                /\ hist[j + 1].coordinates[k] = hist[j].coordinates[k]
                /\ Abs(hist[j + 1].coordinates[k][1]
                       - hist[j].coordinates[k][1]) < Step(precision)

C1_Witness ==
    /\ Len(hist) = 3
    /\ hist[1].op = "inputCoordinates"
    /\ hist[1].coordinates = <<<<-160, 10>>, <<10, -160>>>>
    /\ precision = IntPrecision(Resolution - 1)
    /\ Then(2, "encode", "decode")
    /\ Len(hist[2].str) > 4

\* the last character is a chunk with the continuation bit set
EndsMidChunk(str) ==
    /\ Len(str) > 0
    /\ str[Len(str)] - 63 \in 32..63

\* C2: decode and decodeLongLat of a string that ends mid-chunk fail with
\* a decoding error instead of returning coordinates.
C2_TruncatedIsError ==
    \A j \in 1..Len(hist) :
        (hist[j].op \in {"decode", "decodeLongLat"} /\ EndsMidChunk(hist[j].str))
        => /\ hist[j].error = "DecodeError"
           /\ hist[j].coordinates = <<>>

\* C3 as stated: the README string decodes at precision 5 to two pairs
\* within 1e-5 of (10.79552, 106.71202), (10.79482, 106.71173).
C3_KnownVectorAsStated ==
    \A j \in 1..Len(hist) :
        (hist[j].op = "decode" /\ hist[j].str = KnownVector
            /\ precision = IntPrecision(5))
        => /\ Len(hist[j].coordinates) = 2
           /\ Abs(hist[j].coordinates[1][1] - 1079552) <= 1
           /\ Abs(hist[j].coordinates[1][2] - 10671202) <= 1
           /\ Abs(hist[j].coordinates[2][1] - 1079482) <= 1
           /\ Abs(hist[j].coordinates[2][2] - 10671173) <= 1

\* C3 amended: the README string decodes at precision 5 to exactly the two
\* pairs (106.70594, 10.79631), (106.70672, 10.80174).
C3_KnownVector ==
    \A j \in 1..Len(hist) :
        (hist[j].op = "decode" /\ hist[j].str = KnownVector
            /\ precision = IntPrecision(5))
        => hist[j].coordinates
               = <<<<10670594, 1079631>>, <<10670672, 1080174>>>>

C3_Witness ==
    /\ Len(hist) = 2
    /\ hist[2].op = "decode"
    /\ hist[2].str = KnownVector
    /\ precision = IntPrecision(5)
    /\ hist[2].index = Len(KnownVector)

\* an even number of values, each zero or more continuation chunks and one
\* final chunk, every character in 63..126
WellFormed(str) ==
    /\ \A k \in 1..Len(str) : str[k] \in 63..126
    /\ Len(str) > 0 => str[Len(str)] - 63 < 32
    /\ Cardinality({k \in 1..Len(str) : str[k] - 63 < 32}) % 2 = 0

\* no value of several chunks ends in a zero chunk
Canonical(str) ==
    \A k \in 2..Len(str) : ~(str[k] = 63 /\ str[k - 1] - 63 >= 32)

C5_Idempotent ==
    \A j \in 1..Len(hist) :
        (Then(j, "encode", "decode") /\ Then(j + 2, "encode", "decode")
            /\ precision.isInteger)
        => hist[j + 3].coordinates = hist[j + 1].coordinates

C5_Witness ==
    /\ Len(hist) = 5
    /\ hist[1].op = "inputCoordinates"
    /\ hist[1].coordinates = <<<<-5, MaxCoord>>, <<MaxCoord, -160>>>>
    /\ precision = IntPrecision(Resolution - 1)
    /\ Then(2, "encode", "decode")
    /\ Then(4, "encode", "decode")
    /\ hist[3].coordinates # hist[1].coordinates

\* C6: decodeLongLat and toGeoJSON return as many pairs as decode does on
\* the same string, each the pair of decode with its components swapped,
\* and stop reading at the same position.
C6_SwappedDecode ==
    \A j \in 1..Len(hist) :
        hist[j].op \in {"decodeLongLat", "toGeoJSON"}
        => LET d == decode(hist[j].str, precision)
               c == hist[j].coordinates
           IN  /\ Len(c) = Len(d.coordinates)
               /\ \A k \in 1..Len(c) :
                    /\ c[k][1] = d.coordinates[k][2]
                    /\ c[k][2] = d.coordinates[k][1]
               /\ hist[j].index = d.index

C6_Witness ==
    /\ Len(hist) = 2
    /\ hist[2].op = "decodeLongLat"
    /\ hist[2].str = <<96, 64, 94, 95>>
    /\ Len(hist[2].coordinates) = 2
    /\ hist[2].coordinates[1][1] # hist[2].coordinates[1][2]

----------------------------------------------------------------------------
(* Properties of splitRouteByLatLng *)

SplitDone == geoOp = "splitRouteByLatLng" /\ geoResult.error = "none"

Distinct(ln) ==
    \A a, b \in 1..Len(ln) : a # b => ln[a] # ln[b]

\* pt lies on the segment from a to b
LiesOn(pt, a, b) ==
    /\ (b[1] - a[1]) * (pt[2] - a[2]) = (b[2] - a[2]) * (pt[1] - a[1])
    /\ (pt[1] - a[1]) * (b[1] - a[1]) + (pt[2] - a[2]) * (b[2] - a[2]) >= 0
    /\ (pt[1] - b[1]) * (a[1] - b[1]) + (pt[2] - b[2]) * (a[2] - b[2]) >= 0

\* pt lies on a segment that ends before the k-th vertex (k from 1)
OnEarlierSegment(pt, ln, k) ==
    \E i \in 1..(k - 2) : LiesOn(pt, ln[i], ln[i + 1])

Last(q) == q[Len(q)]

\* C7 as stated: splitting at the first vertex gives before = [first] and
\* after = the path; splitting at the last vertex gives before = the path
\* and after = [last].
C7_SplitAtEndsAsStated ==
    (SplitDone /\ snapInputLatLngToResult /\ Len(line) >= 2 /\ Distinct(line))
    => /\ point = line[1]
            => geoResult.line1 = <<line[1]>> /\ geoResult.line2 = line
       /\ point = Last(line)
            => geoResult.line1 = line /\ geoResult.line2 = <<Last(line)>>

\* C7 amended: with the default options, splitting at the first vertex
\* gives before = [first] and after = first followed by the path; splitting
\* at a last vertex that lies on no earlier segment gives before = the path
\* and after = [last, last].
C7_SplitAtEnds ==
    (SplitDone /\ snapInputLatLngToResult /\ Len(line) >= 2 /\ Distinct(line))
    => /\ point = line[1]
            => /\ geoResult.line1 = <<line[1]>>
               /\ geoResult.line2 = <<line[1]>> \o line
       /\ (point = Last(line) /\ ~OnEarlierSegment(point, line, Len(line)))
            => /\ geoResult.line1 = line
               /\ geoResult.line2 = <<Last(line), Last(line)>>

C7_Witness ==
    /\ SplitDone
    /\ snapInputLatLngToResult
    /\ line = <<<<0, 0>>, <<1, 2>>, <<2, 1>>>>
    /\ point = <<2, 1>>
    /\ geoResult.line1 = line

\* the two arrays the README expects from its example
ReadmeLine1 ==
    <<<<10670594, 1079631>>, <<10670664, 1079593>>, <<10670673, 1079589>>,
      <<10670700, 1079579>>, <<10670727, 1079572>>, <<10670743, 1079568>>,
      <<10670758, 1079565>>, <<10670778, 1079557>>, <<10670811, 1079543>>,
      <<10670828, 1079536>>, <<10670841, 1079530>>, <<10670929, 1079482>>>>

ReadmeLine2 ==
    <<<<10670929, 1079482>>, <<10670929, 1079482>>, <<10670932, 1079479>>,
      <<10670985, 1079534>>, <<10670999, 1079553>>, <<10671006, 1079565>>,
      <<10671013, 1079585>>, <<10671019, 1079601>>, <<10671034, 1079640>>,
      <<10671050, 1079683>>, <<10671056, 1079700>>, <<10671071, 1079738>>>>

\* C8: with the default options, a query point equal to vertex k >= 1
\* (counted from 0) of a path of distinct vertices, on no earlier segment,
\* gives before = path[0..k-1] and the point, after = the point and
\* path[k..n-1]; the README example gives its two arrays of 12 elements.
C8_SplitAtVertex ==
    (SplitDone /\ snapInputLatLngToResult /\ Distinct(line))
    => /\ \A k \in 2..Len(line) :
            (point = line[k] /\ ~OnEarlierSegment(point, line, k))
            => /\ geoResult.line1 = SubSeq(line, 1, k - 1) \o <<point>>
               /\ geoResult.line2 = <<point>> \o SubSeq(line, k, Len(line))
       /\ (line = ReadmeLine /\ point = ReadmePoint)
            => /\ Len(geoResult.line1) = 12
               /\ Len(geoResult.line2) = 12
               /\ geoResult.line1 = ReadmeLine1
               /\ geoResult.line2 = ReadmeLine2

C8_Witness ==
    /\ SplitDone
    /\ snapInputLatLngToResult
    /\ line = ReadmeLine
    /\ point = ReadmePoint
    /\ geoResult.res.index = 11

\* the index the split was made at
UsedIndex == IF geoResult.res.isNull THEN 0 ELSE geoResult.res.index

\* C9 as stated: without snapping, before = path[0..i] and
\* after = path[i..end], so path[i] ends before and starts after.
C9_SliceAsStated ==
    (SplitDone /\ ~snapInputLatLngToResult /\ Len(line) >= 2)
    => /\ geoResult.line1 = SubSeq(line, 1, UsedIndex + 1)
       /\ geoResult.line2 = SubSeq(line, UsedIndex + 1, Len(line))
       /\ Last(geoResult.line1) = line[UsedIndex + 1]
       /\ Head(geoResult.line2) = line[UsedIndex + 1]

\* C9 amended: without snapping, before = path[0..i-1], which leaves out
\* path[i], and after = path[i..end], which starts with path[i].
C9_Slice ==
    (SplitDone /\ ~snapInputLatLngToResult)
    => /\ geoResult.line1 = SubSeq(line, 1, UsedIndex)
       /\ geoResult.line2 = SubSeq(line, UsedIndex + 1, Len(line))
       /\ Len(geoResult.line1) = UsedIndex
       /\ Len(line) >= 1 => Head(geoResult.line2) = line[UsedIndex + 1]

C9_Witness ==
    /\ SplitDone
    /\ ~snapInputLatLngToResult
    /\ line = <<<<0, 0>>, <<1, 2>>, <<2, 1>>>>
    /\ point = <<1, 2>>
    /\ UsedIndex = 1
    /\ geoResult.line1 = <<<<0, 0>>>>

\* the two halves put together, a vertex that ends the first and starts
\* the second counted once
Joined(b, a) ==
    IF Len(b) > 0 /\ Len(a) > 0 /\ Last(b) = Head(a)
    THEN b \o Tail(a) ELSE b \o a

\* C10: for a valid unit the halves returned without snapping, joined,
\* are the path; with snapping the same holds once the inserted query
\* point is taken off the end of before and the start of after.
C10_HalvesCoverPath ==
    (SplitDone /\ unit \in Units)
    => IF snapInputLatLngToResult
       THEN /\ Len(geoResult.line1) >= 1
            /\ Len(geoResult.line2) >= 1
            /\ Last(geoResult.line1) = point
            /\ Head(geoResult.line2) = point
            /\ Joined(SubSeq(geoResult.line1, 1, Len(geoResult.line1) - 1),
                      Tail(geoResult.line2)) = line
       ELSE Joined(geoResult.line1, geoResult.line2) = line

C10_Witness ==
    /\ SplitDone
    /\ unit = "miles"
    /\ ~snapInputLatLngToResult
    /\ line = <<<<0, 0>>, <<1, 1>>, <<1, 1>>>>
    /\ point = <<1, 2>>
    /\ UsedIndex = 1

----------------------------------------------------------------------------
(* Properties of the options, the units and the nearest point *)

SplitCalled == geoOp = "splitRouteByLatLng"
NearestCalled == geoOp = "nearestLatLngOnLine"
NearestDone == NearestCalled /\ geoResult.error = "none"

\* C11: an omitted snap option counts as true; with snap the halves are
\* the halves without snap, the query point appended once to before and
\* prepended once to after; without snap the point is put in neither.
C11_SnapOption ==
    SplitDone
    => /\ options.snap = "undefined" => snapInputLatLngToResult
       /\ options.snap = "false" => ~snapInputLatLngToResult
       /\ LET b0 == SubSeq(line, 1, UsedIndex)
              a0 == SubSeq(line, UsedIndex + 1, Len(line))
          IN  IF snapInputLatLngToResult
              THEN /\ geoResult.line1 = b0 \o <<point>>
                   /\ geoResult.line2 = <<point>> \o a0
              ELSE /\ geoResult.line1 = b0
                   /\ geoResult.line2 = a0

C11_Witness ==
    /\ SplitDone
    /\ options.snap = "undefined"
    /\ line = <<<<0, 0>>, <<0, 1>>, <<0, 2>>>>
    /\ point = <<2, 2>>
    /\ geoResult.line1 = <<<<0, 0>>, <<0, 1>>, <<2, 2>>>>
    /\ geoResult.line2 = <<<<2, 2>>, <<0, 2>>>>

\* C12: a call of nearestLatLngOnLine or splitRouteByLatLng with a unit
\* that has no conversion factor throws and returns nothing, whatever the
\* length of the path.
C12_InvalidUnitThrows ==
    (geoOp # "none" /\ unit \notin Units)
    => /\ geoResult.error # "none"
       /\ geoResult.res.isNull
       /\ geoResult.line1 = <<>>
       /\ geoResult.line2 = <<>>

\* C13: with a valid unit nearestLatLngOnLine does not throw, and it
\* returns null exactly when the path has fewer than 2 points.
C13_NullIffShort ==
    (NearestCalled /\ unit \in Units)
    => /\ geoResult.error = "none"
       /\ geoResult.res.isNull <=> Len(line) < 2

C13_Witness ==
    /\ NearestDone
    /\ unit \in Units
    /\ line = <<<<0, 0>>, <<2, 1>>>>
    /\ point = <<1, 2>>
    /\ ~geoResult.res.isNull

\* C14: on a path of 0 or 1 points and a valid unit, splitRouteByLatLng
\* does not throw and splits at index 0: before is empty and after the
\* path without snap, before = [point] and after = point, path with snap.
C14_DegenerateSplit ==
    (SplitCalled /\ unit \in Units /\ Len(line) <= 1)
    => /\ geoResult.error = "none"
       /\ geoResult.res.isNull
       /\ IF snapInputLatLngToResult
          THEN /\ geoResult.line1 = <<point>>
               /\ geoResult.line2 = <<point>> \o line
          ELSE /\ geoResult.line1 = <<>>
               /\ geoResult.line2 = line

C14_Witness ==
    /\ SplitDone
    /\ unit = "miles"
    /\ line = <<<<1, 1>>>>
    /\ point = <<0, 2>>
    /\ snapInputLatLngToResult
    /\ geoResult.line2 = <<<<0, 2>>, <<1, 1>>>>

\* the point of a result lies on the segment from a to b
ResultOnSegment(pt, a, b) ==
    IF pt.on = "vertex" THEN LiesOn(pt.latLng, a, b)
    ELSE pt.start = a /\ pt.stop = b

\* C15 as stated: the index of a non-null result of nearestLatLngOnLine is
\* between 0 and n-2 and its point lies on the segment from path[index] to
\* path[index+1].
C15_IndexAsStated ==
    (NearestDone /\ ~geoResult.res.isNull)
    => /\ geoResult.res.index >= 0
       /\ geoResult.res.index <= Len(line) - 2
       /\ ResultOnSegment(geoResult.res.point, line[geoResult.res.index + 1],
                          line[geoResult.res.index + 2])

\* C15 amended: the index is between 0 and n-1; a vertex result is
\* path[index], where index is n-1 for the last vertex; an intersection
\* result has index <= n-2 and lies on the segment from path[index] to
\* path[index+1]; whenever index <= n-2 the point lies on that segment.
C15_Index ==
    (NearestDone /\ ~geoResult.res.isNull)
    => LET r == geoResult.res
       IN  /\ r.index >= 0
           /\ r.index <= Len(line) - 1
           /\ r.point.on = "vertex" => r.point.latLng = line[r.index + 1]
           /\ r.point.on = "segment"
                => /\ r.index <= Len(line) - 2
                   /\ r.point.start = line[r.index + 1]
                   /\ r.point.stop = line[r.index + 2]
                   /\ r.point.t.num >= 0
                   /\ r.point.t.num <= r.point.t.den
           /\ r.index <= Len(line) - 2
                => ResultOnSegment(r.point, line[r.index + 1],
                                   line[r.index + 2])

C15_Witness ==
    /\ NearestDone
    /\ line = <<<<0, 0>>, <<0, 1>>, <<1, 1>>>>
    /\ point = <<2, 2>>
    /\ geoResult.res.index = 2
    /\ geoResult.res.point = Vertex(<<1, 1>>)

\* C16: encode of no coordinates is the empty string, decode and
\* decodeLongLat of the empty string are the empty sequence, and decode of
\* a string that is not empty returns at least one coordinate.
C16_Empty ==
    \A j \in 1..Len(hist) :
        /\ (hist[j].op = "encode" /\ hist[j].coordinates = <<>>)
              => hist[j].str = <<>>
        /\ (hist[j].op \in {"decode", "decodeLongLat"} /\ hist[j].str = <<>>)
              => hist[j].coordinates = <<>>
        /\ (hist[j].op = "decode" /\ hist[j].str # <<>>)
              => Len(hist[j].coordinates) >= 1

C16_Witness ==
    /\ Len(hist) = 5
    /\ hist[1].op = "inputCoordinates"
    /\ hist[1].coordinates = <<>>
    /\ Then(2, "encode", "decode")
    /\ Then(4, "encode", "decodeLongLat")
    /\ hist[5].str = <<>>
    /\ hist[5].coordinates = <<>>

\* C17: with a precision that is not an integer, encode, decode and
\* decodeLongLat return what they return for precision 5 and throw
\* nothing; with an integer precision N the decoders divide the summed
\* deltas by 10^N and encode writes the deltas of round(component * 10^N).
C17_Precision ==
    \A j \in 1..Len(hist) :
        LET five == IntPrecision(5)
            raw == IntPrecision(Resolution)
            c == hist[j].coordinates
        IN  /\ ~precision.isInteger
                => /\ hist[j].error = "none"
                   /\ hist[j].op = "encode" => hist[j].str = encode(c, five)
                   /\ hist[j].op = "decode"
                        => c = decode(hist[j].str, five).coordinates
                   /\ hist[j].op = "decodeLongLat"
                        => c = decodeLongLat(hist[j].str, five).coordinates
            /\ precision.isInteger
                => /\ hist[j].op \in {"decode", "decodeLongLat"}
                        => LET d == IF hist[j].op = "decode"
                                    THEN decode(hist[j].str, raw).coordinates
                                    ELSE decodeLongLat(hist[j].str, raw).coordinates
                           IN  /\ Len(c) = Len(d)
                               /\ \A k \in 1..Len(c) :
                                    /\ c[k][1] = d[k][1] * Step(precision)
                                    /\ c[k][2] = d[k][2] * Step(precision)
                   /\ hist[j].op = "encode"
                        => LET d == decode(hist[j].str, raw).coordinates
                           IN  /\ Len(d) = Len(c)
                               /\ \A k \in 1..Len(c) :
                                    /\ d[k][1] * Step(precision) - c[k][1]
                                          \in (1 - Step(precision))..Step(precision)
                                    /\ d[k][2] * Step(precision) - c[k][2]
                                          \in (1 - Step(precision))..Step(precision)

C17_Witness ==
    /\ Len(hist) = 3
    /\ ~precision.isInteger
    /\ hist[1].op = "inputCoordinates"
    /\ hist[1].coordinates = <<<<-160, 10>>, <<MaxCoord, -5>>>>
    /\ Then(2, "encode", "decode")
    /\ hist[3].coordinates = hist[1].coordinates

\* no two candidates are equally far from the point and the point lies on
\* no segment: the inputs on which rounding cannot change a comparison
TieFree ==
    /\ Distinct(line)
    /\ \A i \in 1..(Len(line) - 1) : ~LiesOn(point, line[i], line[i + 1])
    /\ \A k \in 1..Len(line) :
          /\ \A j \in 1..Len(line) :
                j # k => _distance(point, line[j]) # _distance(point, line[k])
          /\ \A i \in 1..(Len(line) - 1) :
                LET x == Intersection(point, line[i], line[i + 1])
                IN  ~x.isNull
                    => /\ Less(x.distance, _distance(point, line[k]))
                          \/ Less(_distance(point, line[k]), x.distance)
                       /\ \A h \in 1..(Len(line) - 1) :
                            LET y == Intersection(point, line[h], line[h + 1])
                            IN  (h # i /\ ~y.isNull)
                                => \/ Less(x.distance, y.distance)
                                   \/ Less(y.distance, x.distance)

\* the index, from 0, of the first vertex of the path nearest to the point
NearestVertexIndex ==
    (CHOOSE k \in 1..Len(line) :
        /\ \A j \in 1..Len(line) :
              ~Less(_distance(point, line[j]), _distance(point, line[k]))
        /\ \A j \in 1..(k - 1) :
              Less(_distance(point, line[k]), _distance(point, line[j]))) - 1

\* C19: on a path of at least 2 points splitRouteByLatLng splits at the
\* index of the vertex nearest to the query point, the first on ties,
\* whatever intersection candidates the segments give (stated here for
\* the inputs without ties, where no first has to be picked).
C19_SplitsAtNearestVertex ==
    (SplitDone /\ Len(line) >= 2 /\ TieFree) => UsedIndex = NearestVertexIndex

\* C20: the result of nearestLatLngOnLine on a path of at least 2 points
\* is no farther from the query point than any vertex of the path and any
\* valid intersection point of a segment.
C20_Minimum ==
    (NearestDone /\ Len(line) >= 2)
    => /\ ~geoResult.res.isNull
       /\ \A k \in 1..Len(line) :
            ~Less(_distance(point, line[k]), geoResult.res.distance)
       /\ \A i \in 1..(Len(line) - 1) :
            LET x == Intersection(point, line[i], line[i + 1])
            IN  ~x.isNull => ~Less(x.distance, geoResult.res.distance)

C20_Witness ==
    /\ NearestDone
    /\ line = <<<<0, 0>>, <<2, 0>>, <<2, 2>>>>
    /\ point = <<1, 1>>
    /\ geoResult.res.point.on = "segment"
    /\ geoResult.res.index = 0
    /\ geoResult.res.distance = Frac(1, 1)

----------------------------------------------------------------------------
(* Properties of the search order, the location and the stop mode *)

\* the candidates of nearestLatLngOnLine in the order the loop compares
\* them: for each segment its start, its stop and, when there is one, its
\* intersection
RECURSIVE CandidatesFrom(_, _, _)
CandidatesFrom(ln, pt, i) ==
    IF i >= Len(ln) - 1 THEN <<>>
    ELSE LET x == Intersection(pt, ln[i + 1], ln[i + 2])
         IN  <<[kind |-> "start", on |-> Vertex(ln[i + 1]), index |-> i,
                distance |-> _distance(pt, ln[i + 1])],
               [kind |-> "stop", on |-> Vertex(ln[i + 2]), index |-> i + 1,
                distance |-> _distance(pt, ln[i + 2])]>>
             \o (IF x.isNull THEN <<>>
                 ELSE <<[kind |-> "intersection", on |-> x.latLng,
                         index |-> i, distance |-> x.distance]>>)
             \o CandidatesFrom(ln, pt, i + 1)

Candidates == CandidatesFrom(line, point, 0)

\* candidate k is strictly nearer than every candidate compared before it
BeatsEarlier(c, k) ==
    \A j \in 1..(k - 1) : Less(c[k].distance, c[j].distance)

\* C21: the result of nearestLatLngOnLine is the first candidate, in the
\* order start, stop, intersection of segment 0, then of segment 1, ...,
\* whose distance no candidate undercuts: a later candidate of equal
\* distance never replaces it.
C21_FirstMinimumWins ==
    (NearestDone /\ Len(line) >= 2)
    => LET c == Candidates
       IN  \E k \in 1..Len(c) :
              /\ BeatsEarlier(c, k)
              /\ \A j \in 1..Len(c) : ~Less(c[j].distance, c[k].distance)
              /\ geoResult.res.point = c[k].on
              /\ geoResult.res.index = c[k].index
              /\ geoResult.res.distance = c[k].distance

\* the point is as near to the first vertex as to the last one and to the
\* feet of both perpendiculars: the first vertex is returned
C21_Witness ==
    /\ NearestDone
    /\ line = <<<<1, 0>>, <<0, 0>>, <<0, 1>>>>
    /\ point = <<1, 1>>
    /\ geoResult.res.point = Vertex(<<1, 0>>)
    /\ geoResult.res.index = 0
    /\ geoResult.res.distance = _distance(point, <<0, 1>>)

\* the lengths of segments 0..k-1 of the path, as the terms of their sum
SegmentLengths(ln, k) == [j \in 1..k |-> _distance(ln[j], ln[j + 1])]

\* the fraction piece is the squared distance from a to the point at
\* fraction t of the segment from a to b
IsPieceOf(piece, a, b, t) ==
    piece.num * t.den * t.den
        = t.num * t.num * _distance(a, b).num * piece.den

\* C22: the location of a result of nearestLatLngOnLine is the length of
\* the path from path[0] to the result: for a vertex result of index k
\* the sum of the lengths of segments 0..k-1, for an intersection result
\* on segment i the sum of the lengths of segments 0..i-1 plus the
\* distance from path[i] to the intersection point.
C22_Location ==
    (NearestDone /\ ~geoResult.res.isNull)
    => LET r == geoResult.res
       IN  /\ r.location.length = SegmentLengths(line, r.index)
           /\ r.point.on = "vertex" => r.location.piece.num = 0
           /\ r.point.on = "segment"
                => IsPieceOf(r.location.piece, line[r.index + 1],
                             line[r.index + 2], r.point.t)

\* the nearest point is the foot (1, 1) on the second segment, at
\* distance 1 from path[1]; the first segment has squared length 1
C22_Witness ==
    /\ NearestDone
    /\ line = <<<<0, 0>>, <<1, 0>>, <<1, 2>>>>
    /\ point = <<2, 1>>
    /\ geoResult.res.index = 1
    /\ geoResult.res.point.on = "segment"
    /\ geoResult.res.location = Location(<<Frac(1, 1)>>, Frac(1, 1))

----------------------------------------------------------------------------
(* Properties of the encoder and of the decoding loops *)

RECURSIVE Pow32(_)
Pow32(n) == IF n = 0 THEN 1 ELSE 32 * Pow32(n - 1)

\* the integer nearest to x * 10^P, the one farther from zero of two
\* nearest ones: the floor q of the scaled value or q + 1, by the
\* remainder r
RefRound(x, p) ==
    LET v == TimesFactor(x, Factor(p))
        q == v.num \div v.den
        r == v.num % v.den
    IN  IF 2 * r > v.den \/ (2 * r = v.den /\ v.num >= 0) THEN q + 1 ELSE q

RefValue(delta) == IF delta < 0 THEN -2 * delta - 1 ELSE 2 * delta

\* the 5-bit chunks of value, least significant first, 0x20 set on every
\* chunk but the last and 63 added to each
RefChunks(value) ==
    LET n == CHOOSE m \in 1..6 :
                 /\ value < Pow32(m)
                 /\ m > 1 => value >= Pow32(m - 1)
    IN  [k \in 1..n |->
            ((value \div Pow32(k - 1)) % 32)
            + (IF k < n THEN 32 ELSE 0) + 63]

RECURSIVE RefEncode(_, _, _)
RefEncode(coordinates, k, p) ==
    IF k = 0 THEN <<>>
    ELSE LET prevLat == IF k = 1 THEN 0 ELSE RefRound(coordinates[k - 1][1], p)
             prevLng == IF k = 1 THEN 0 ELSE RefRound(coordinates[k - 1][2], p)
         IN  RefEncode(coordinates, k - 1, p)
             \o RefChunks(RefValue(RefRound(coordinates[k][1], p) - prevLat))
             \o RefChunks(RefValue(RefRound(coordinates[k][2], p) - prevLng))

\* C23: the output of encode is the reference encoding: for each point in
\* path order, latitude then longitude, the delta of the rounded scaled
\* values (from 0 for the first point), mapped to -2*delta - 1 when
\* negative and 2*delta otherwise, written in 5-bit chunks, least
\* significant first, with 0x20 on every chunk but the last and 63 added.
C23_ReferenceEncoding ==
    \A j \in 1..Len(hist) :
        hist[j].op = "encode"
        => hist[j].str = RefEncode(hist[j].coordinates,
                                   Len(hist[j].coordinates), precision)

C23_Witness ==
    /\ Len(hist) = 2
    /\ precision = IntPrecision(5)
    /\ hist[2].op = "encode"
    /\ hist[2].coordinates = <<<<-160, 10>>, <<MaxCoord, -5>>>>
    /\ hist[2].str = <<126, 72, 83, 105, 83, 92>>

\* C24: every character of an output of encode has a code in 63..126;
\* the chunks that end a value have codes in 63..94 and the others codes
\* in 95..126, the output holds exactly 2 ending chunks per input point,
\* and its last character is an ending chunk.
C24_OutputAlphabet ==
    \A j \in 1..Len(hist) :
        hist[j].op = "encode"
        => LET str == hist[j].str
           IN  /\ \A k \in 1..Len(str) : str[k] \in 63..126
               /\ Cardinality({k \in 1..Len(str) : str[k] \in 63..94})
                     = 2 * Len(hist[j].coordinates)
               /\ Len(str) > 0 => str[Len(str)] \in 63..94

C24_Witness ==
    /\ Len(hist) = 2
    /\ precision = IntPrecision(5)
    /\ hist[2].op = "encode"
    /\ hist[2].coordinates = <<<<MaxCoord, -160>>>>
    /\ Len(hist[2].str) = 4
    /\ hist[2].str[1] \in 95..126
    /\ hist[2].str[2] \in 63..94

\* n is sign(v) * floor(|v| + 1/2) for the fraction v
IsHalfAwayRound(n, v) ==
    /\ v.num >= 0 => n >= 0
    /\ v.num < 0 => n <= 0
    /\ 2 * v.den * Abs(n) <= 2 * Abs(v.num) + v.den
    /\ 2 * Abs(v.num) + v.den < 2 * v.den * (Abs(n) + 1)

\* C25: the values that encode writes are the scaled components rounded
\* to the nearest integer, halves away from zero: round(v) is
\* sign(v) * floor(|v| + 1/2), so -0.5 gives -1 and 16.5 gives 17, where
\* truncation and round-half-to-even give 0 and 16.
C25_RoundHalfAwayFromZero ==
    \A j \in 1..Len(hist) :
        hist[j].op = "encode"
        => LET c == hist[j].coordinates
               d == decode(hist[j].str, IntPrecision(Resolution)).coordinates
           IN  /\ Len(d) = Len(c)
               /\ \A k \in 1..Len(c) :
                     /\ IsHalfAwayRound(d[k][1],
                            TimesFactor(c[k][1], Factor(precision)))
                     /\ IsHalfAwayRound(d[k][2],
                            TimesFactor(c[k][2], Factor(precision)))

\* -0.00005 and 0.00165 at precision 4: -0.5 and 16.5 are written as -1
\* and 17
C25_Witness ==
    /\ Len(hist) = 2
    /\ precision = IntPrecision(4)
    /\ hist[2].op = "encode"
    /\ hist[2].coordinates = <<<<-5, MaxCoord>>>>
    /\ hist[2].str = <<64, 97, 64>>

----------------------------------------------------------------------------
(* Properties of the errors of the API methods *)

\* the promise the caller of the method holds is settled
CallSettled == api.stage = "catch"

\* C26: when the request succeeds and the body fails the schema, so that
\* fromJSON throws a ZodError inside the then callback, the promise that
\* the API method returned rejects with a ParseError, code PARSE_ERROR.
C26_SchemaFailureRejectsWithParseError ==
    (/\ CallSettled
     /\ api.response.status = 200
     /\ FromJSON(api.method, api.response.data) = Throw(ZodError))
    => /\ api.state = "rejected"
       /\ api.value.name = "ParseError"
       /\ api.value.code = "PARSE_ERROR"

PluginErrors == {"VietmapApiError", "NetworkError", "ValidationError",
                 "AuthenticationError", "RateLimitError", "ServerError",
                 "ParseError"}

C28_DecodeTerminates ==
    \A j \in 1..Len(hist) :
        hist[j].op \in {"decode", "decodeLongLat"}
        => LET str == hist[j].str
               n == Len(hist[j].coordinates)
           IN  /\ hist[j].error = "none"
               /\ hist[j].index >= Len(str)
               /\ hist[j].index >= 2 * n
               /\ 2 * n <= Len(str) + 1
               /\ \A i \in 0..(Len(str) - 1) :
                     LET a == DecodeValue(str, i, 1, 0)
                         b == DecodeValue(str, a.index, 1, 0)
                     IN  b.index >= i + 2

\* '>' is below the alphabet and '_' leaves the second value unfinished
C28_Witness ==
    /\ Len(hist) = 2
    /\ hist[2].op = "decodeLongLat"
    /\ hist[2].str = <<62, 95>>
    /\ Len(hist[2].coordinates) = 1
    /\ hist[2].index = 3

----------------------------------------------------------------------------
(* Properties of the caller's path and of the stop mode *)

\* C29: no step of nearestLatLngOnLine or splitRouteByLatLng changes the
\* path it is given, with or without snap: the halves are arrays of their
\* own, and putting the query point into them leaves the caller's path
\* with the same vertices in the same order.
C29_PathUnchanged == [][line' = line]_vars

C29_Witness ==
    /\ SplitDone
    /\ snapInputLatLngToResult
    /\ line = <<<<0, 0>>, <<1, 0>>, <<2, 0>>>>
    /\ point = <<2, 1>>
    /\ geoResult.line1 = <<<<0, 0>>, <<1, 0>>, <<2, 1>>>>
    /\ geoResult.line2 = <<<<2, 1>>, <<2, 0>>>>

\* candidate k is a stop vertex that was strictly nearer than every
\* candidate compared before it
StopWins(c, k) == c[k].kind = "stop" /\ BeatsEarlier(c, k)

\* C30: the result of the stop mode, which splitRouteByLatLng uses, is
\* the last stop vertex that was strictly nearer than the running
\* minimum when it was compared, and null when there was none, as when
\* path[0] is at least as near to the point as every other vertex.  A
\* result that is not null has 1 <= index <= n-1 and is path[index]; on
\* null the split is made at index 0.
C30_StopMode ==
    SplitDone
    => LET r == geoResult.res
           c == Candidates
       IN  /\ r.isNull <=> ~(\E k \in 1..Len(c) : StopWins(c, k))
           /\ ~r.isNull
                => /\ r.index >= 1
                   /\ r.index <= Len(line) - 1
                   /\ r.point = Vertex(line[r.index + 1])
                   /\ \E k \in 1..Len(c) :
                         /\ StopWins(c, k)
                         /\ r.index = c[k].index
                         /\ r.distance = c[k].distance
                         /\ \A h \in (k + 1)..Len(c) : ~StopWins(c, h)
           /\ (\A k \in 2..Len(line) :
                  ~Less(_distance(point, line[k]), _distance(point, line[1])))
                => r.isNull
           /\ r.isNull
                => /\ geoResult.line1
                         = IF snapInputLatLngToResult THEN <<point>> ELSE <<>>
                   /\ geoResult.line2
                         = IF snapInputLatLngToResult THEN <<point>> \o line
                           ELSE line

\* path[0] is the vertex nearest to the point
C30_Witness ==
    /\ SplitDone
    /\ snapInputLatLngToResult
    /\ line = <<<<0, 0>>, <<1, 0>>, <<2, 0>>>>
    /\ point = <<0, 1>>
    /\ geoResult.res.isNull
    /\ geoResult.line1 = <<<<0, 1>>>>
    /\ Len(geoResult.line2) = 4

====
